---- MODULE Spec2Model ----
(***************************************************************************)
(* A model of room_with_a_view (src/room_with_a_view/room_with_a_view.py): *)
(* one run of RoomWithAViewCommand.handle.  The dependency graph is built  *)
(* from parsed statement records by lexical substring scanning, and the    *)
(* sync / sync-all / drop / drop-all handlers then walk it and issue SQL   *)
(* through execute_sql.  Text is modelled as sequences of characters so    *)
(* that Python's substring test (`name in body`) is computed, not assumed. *)
(***************************************************************************)
EXTENDS Naturals, Sequences, FiniteSets

VARIABLES
    pc,                \* position inside handle()
    conn,              \* "none" | "open" | "closed": self.conn
    commits,           \* number of conn.commit() calls
    closes,            \* number of conn.close() calls
    error,             \* "none" or the exception that left the handler
    dependency_graph,  \* self.dependency_graph: name -> DependencyGraphNode
    options,           \* self.options: action, view_names, file_names
    selected,          \* statement_names as returned by get_statements_from_arguments
    todo,              \* the nodes a drop loop has still to iterate over
    subgraph,          \* sync_views' subgraph: name -> DependencyGraphNode
    starting_nodes,    \* the list the caller handed to traverse_graph
    aliased,           \* active_nodes is still that list object (active_nodes = starting_nodes)
    active_nodes,      \* traverse_graph's queue (node names, front first)
    visited_nodes,     \* traverse_graph's visited set
    visit_order,       \* history: the names in the order visited_nodes.add saw them
    enqueued,          \* history: the names in the order they were placed on the queue
    sql                \* history: every statement handed to cursor.execute

vars == <<pc, conn, commits, closes, error, dependency_graph, options, selected,
          todo, subgraph, starting_nodes, aliased, active_nodes, visited_nodes,
          visit_order, enqueued, sql>>

---------------------------------------------------------------------------
(* Bounds of the model *)

\* statements (';'-separated chunks) in one .sql file
MaxStmts == 1
\* selectors on the command line: names given with --view-names plus paths
\* given with --file-names
MaxSelectors == 2

---------------------------------------------------------------------------
(* Text *)

\* The object names of the corpus.  "a" is a substring of "ab", so a body
\* that mentions ab also, lexically, mentions a.
NameA == <<"a">>
NameAB == <<"a", "b">>
NameC == <<"c">>
Names == {NameA, NameAB, NameC}
\* The names a function may carry in the corpus (views may carry any name).
FunctionNames == {NameC}

\* statement_data['name'] of a chunk that is no view or function declaration
None == <<>>

\* s occurs in t: Python's `s in t` on str
IsSubstring(s, t) ==
    \E i \in 0..(Len(t) - Len(s)) : SubSeq(t, i + 1, i + Len(s)) = s

\* The words of ws separated by single spaces
RECURSIVE Join(_)
Join(ws) ==
    IF ws = <<>> THEN <<>>
    ELSE IF Len(ws) = 1 THEN ws[1]
    ELSE ws[1] \o <<" ">> \o Join(Tail(ws))

\* The bodies of the corpus: each mentions no name, one name or two
Bodies ==
    { Join(ws) : ws \in { <<>>, <<NameA>>, <<NameAB>>, <<NameC>>, <<NameA, NameC>> } }

\* All enumerations of a finite set: the orders in which Python may iterate
\* over a set or (before 3.7) a dict
Perms(S) ==
    { f \in [1..Cardinality(S) -> S] : \A i, j \in DOMAIN f : f[i] = f[j] => i = j }

\* All sequences over S of length at most n
SeqsUpTo(S, n) == UNION { [1..k -> S] : k \in 0..n }

\* The elements of a sequence
Range(s) == { s[i] : i \in DOMAIN s }

---------------------------------------------------------------------------
(* Python values, as far as drop_node compares them *)

PyNone == [py |-> "None", v |-> <<>>]
PyStr(s) == [py |-> "str", v |-> s]
PyTuple(items) == [py |-> "tuple", v |-> items]
PyList(items) == [py |-> "list", v |-> items]

\* bool(x)
PyTruthy(x) == x.py # "None" /\ x.v # <<>>

\* x == y: values of different types are never equal
PyEq(x, y) == x.py = y.py /\ x.v = y.v

---------------------------------------------------------------------------
(* Statement records and files *)

\* What parse_statement returns for a chunk that matches neither pattern
NotRecognized == [name |-> None, statement_type |-> "none", body |-> <<>>]

\* What parse_statement returns for the chunks of the corpus: the record of
\* a view or function declaration, or NotRecognized.  declaration, arg_list
\* and comments are carried verbatim into the SQL text and are left out.
StatementData ==
    {NotRecognized} \cup
    { [name |-> n, statement_type |-> t, body |-> b] :
        n \in Names, t \in {"view"}, b \in Bodies } \cup
    { [name |-> n, statement_type |-> t, body |-> b] :
        n \in FunctionNames, t \in {"function"}, b \in Bodies }

\* A .sql file: the records of its ';'-separated chunks, in order
Files == SeqsUpTo(StatementData, MaxStmts)

\* DependencyGraphNode(**statement_data)
DependencyGraphNode(statement_data) ==
    [name |-> statement_data.name,
     statement_type |-> statement_data.statement_type,
     body |-> statement_data.body,
     in_edges |-> {},
     out_edges |-> {}]

\* {}
EmptyDict == [x \in {} |-> NotRecognized]

\* d[k] = v
DictSet(d, k, v) == [x \in DOMAIN d \cup {k} |-> IF x = k THEN v ELSE d[x]]

\* parse_file: every recognized statement of the file is stored under its
\* name, a later record replacing an earlier one of the same name
RECURSIVE parse_file(_, _)
parse_file(file, graph) ==
    IF file = <<>> THEN graph
    ELSE LET statement_data == Head(file)
             stored == IF statement_data.name # None
                       THEN DictSet(graph, statement_data.name,
                                    DependencyGraphNode(statement_data))
                       ELSE graph
         IN  parse_file(Tail(file), stored)

\* get_statements_from_file: the names a file declares
get_statements_from_file(file) == DOMAIN parse_file(file, EmptyDict)

\* get_dependencies with the test `statement_name != cur_statement_name` left out
get_dependencies_NoSelfTest(cur_statement_name, cur_statement_body, all_statement_names) ==
    { statement_name \in all_statement_names :
        IsSubstring(statement_name, cur_statement_body) }

\* get_dependencies: the other known names that occur in the body
get_dependencies(cur_statement_name, cur_statement_body, all_statement_names) ==
    { statement_name \in all_statement_names :
        /\ IsSubstring(statement_name, cur_statement_body)
        /\ statement_name # cur_statement_name }

\* the reverse edges recorded on the wrong side: the dependent's own in_edges
add_in_edges_OnDependent(graph, dependencies, name) ==
    [x \in DOMAIN graph |->
        IF x = name /\ dependencies # {}
        THEN [graph[x] EXCEPT !.in_edges = @ \cup dependencies]
        ELSE graph[x]]

\* for dependency in dependencies:
\*     dependency_graph[dependency].in_edges.add(node.name)
add_in_edges(graph, dependencies, name) ==
    [x \in DOMAIN graph |->
        IF x \in dependencies
        THEN [graph[x] EXCEPT !.in_edges = @ \cup {name}]
        ELSE graph[x]]

\* The second pass of parse_dependency_graph over the nodes still to do
RECURSIVE link_nodes(_, _)
link_nodes(graph, rest) ==
    IF rest = {} THEN graph
    ELSE LET n == CHOOSE x \in rest : TRUE
             node == graph[n]
             dependencies == get_dependencies(node.name, node.body, DOMAIN graph)
             with_out == [graph EXCEPT ![n].out_edges = @ \cup dependencies]
         IN  link_nodes(add_in_edges(with_out, dependencies, node.name), rest \ {n})

---------------------------------------------------------------------------
(* handle: arguments, connection and graph construction *)

Init ==
    /\ pc = "parse_args"
    /\ conn = "none"
    /\ commits = 0
    /\ closes = 0
    /\ error = "none"
    /\ dependency_graph = EmptyDict
    /\ options = [action |-> "none", view_names |-> <<>>, file_names |-> <<>>]
    /\ selected = <<>>
    /\ todo = <<>>
    /\ subgraph = EmptyDict
    /\ starting_nodes = <<>>
    /\ aliased = FALSE
    /\ active_nodes = <<>>
    /\ visited_nodes = {}
    /\ visit_order = <<>>
    /\ enqueued = <<>>
    /\ sql = <<>>

\* An exception that handle swallows: the try block goes on to its commit
Raise_Swallowed(exception) ==
    /\ error' = exception
    /\ pc' = "commit"

\* An exception leaves handle's try block: only the finally clause is left
Raise(exception) ==
    /\ error' = exception
    /\ pc' = "finally"

\* parse_args: the settings are read and the connection opened; anything
\* that fails on the way, before or after psycopg2.connect, raises ValueError
parse_args ==
    /\ pc = "parse_args"
    /\ \E settings \in {"complete", "no connection", "no directories"} :
        /\ conn' = IF settings = "no connection" THEN conn ELSE "open"
        /\ IF settings = "complete"
           THEN pc' = "parse_files" /\ error' = error
           ELSE Raise("ValueError")
    /\ UNCHANGED <<commits, closes, dependency_graph, options, selected, todo,
                   subgraph, active_nodes, visited_nodes, visit_order,
                   enqueued, starting_nodes, aliased, sql>>

\* parse_dependency_graph, first pass: the next .sql file of the walk is
\* parsed, or cannot be read
parse_next_file ==
    /\ pc = "parse_files"
    /\ \E file \in Files, readable \in BOOLEAN :
        IF readable
        THEN /\ dependency_graph' = parse_file(file, dependency_graph)
             /\ UNCHANGED <<pc, error>>
        ELSE /\ Raise("IOError")
             /\ UNCHANGED dependency_graph
    /\ UNCHANGED <<conn, commits, closes, options, selected, todo,
                   subgraph, active_nodes, visited_nodes, visit_order,
                   enqueued, starting_nodes, aliased, sql>>

\* parse_dependency_graph, second pass, once the walk is over
parse_dependency_graph ==
    /\ pc = "parse_files"
    /\ dependency_graph' = link_nodes(dependency_graph, DOMAIN dependency_graph)
    /\ pc' = "dispatch"
    /\ UNCHANGED <<conn, commits, closes, error, options, selected, todo,
                   subgraph, active_nodes, visited_nodes, visit_order,
                   enqueued, starting_nodes, aliased, sql>>

---------------------------------------------------------------------------
(* The SQL executor *)

\* One call of execute_sql as the history records it: the statement, the
\* object it names, the number of rows the cursor held, and whether
\* cursor.execute returned (ok) or raised
Statement(op, name, rows, ok) == [op |-> op, name |-> name, rows |-> rows, ok |-> ok]

\* What psycopg2's cursor holds after the catalog probe for `name`: no row,
\* or one row per function of that name, each row a 1-tuple (proname,)
CatalogRows(name) == { <<>>, << PyTuple(<< PyStr(name) >>) >> }

\* execute_sql's return value: cursor.fetchall() when rowcount >= 1, else None
execute_sql_result(rows) == IF Len(rows) >= 1 THEN PyList(rows) ELSE PyNone

\* What a visit function did: the statements it issued, and the exception
\* that left it ("none" when it returned)
Outcome(stmts, raised) == [stmts |-> stmts, raised |-> raised]

\* drop_node's test `not result or result[0] != node.name`
function_is_absent(result, name) ==
    \/ ~PyTruthy(result)
    \/ ~PyEq(result.v[1], PyStr(name))

\* drop_node returning at once for a view, no statement issued
drop_node_ViewSkipped(node, rows, fail_at, calls) ==
    IF node.statement_type = "view" THEN Outcome(<<>>, "none")
    ELSE Outcome(<< Statement("PROBE", node.name, Len(rows), calls + 1 # fail_at) >>,
                 IF calls + 1 = fail_at THEN "ExecutionError" ELSE "none")

\* drop_node.  rows is what the catalog holds for the probe; the fail_at-th
\* call of execute_sql raises (0: none does); calls counts the calls made
\* before this one by the same visit.
drop_node(node, rows, fail_at, calls) ==
    IF node.statement_type = "view"
    THEN Outcome(<< Statement("DROP VIEW", node.name, 0, calls + 1 # fail_at) >>,
                 IF calls + 1 = fail_at THEN "ExecutionError" ELSE "none")
    ELSE IF node.statement_type = "function"
    THEN LET probe_ok == calls + 1 # fail_at
             probe == Statement("PROBE", node.name, Len(rows), probe_ok)
             result == execute_sql_result(rows)
         IN  IF ~probe_ok THEN Outcome(<< probe >>, "ExecutionError")
             ELSE IF function_is_absent(result, node.name) THEN Outcome(<< probe >>, "none")
             ELSE Outcome(<< probe,
                             Statement("DROP FUNCTION", node.name, 0, calls + 2 # fail_at) >>,
                          IF calls + 2 = fail_at THEN "ExecutionError" ELSE "none")
    ELSE Outcome(<<>>, "ValueError")

\* create_node around an execute_sql that swallows the executor's error
create_node_Swallows(node, fail_at, calls) ==
    Outcome(<< Statement("CREATE", node.name, 0, calls + 1 # fail_at) >>, "none")

\* create_node: declaration + body as one statement
create_node(node, fail_at, calls) ==
    Outcome(<< Statement("CREATE", node.name, 0, calls + 1 # fail_at) >>,
            IF calls + 1 = fail_at THEN "ExecutionError" ELSE "none")

\* drop_and_recreate_node with its two calls exchanged: create, then drop
drop_and_recreate_node_CreateFirst(node, rows, fail_at) ==
    LET created == create_node(node, fail_at, 0)
        dropped == drop_node(node, rows, fail_at, 1)
    IN  IF created.raised # "none" THEN created
        ELSE Outcome(created.stmts \o dropped.stmts, dropped.raised)

\* drop_and_recreate_node without its drop
drop_and_recreate_node_NoDrop(node, rows, fail_at) == create_node(node, fail_at, 0)

\* drop_and_recreate_node
drop_and_recreate_node(node, rows, fail_at) ==
    LET dropped == drop_node(node, rows, fail_at, 0)
        created == create_node(node, fail_at, Len(dropped.stmts))
    IN  IF dropped.raised # "none" THEN dropped
        ELSE Outcome(dropped.stmts \o created.stmts, created.raised)

\* The calls of execute_sql one visit can make, plus "none raises"
FailAt == 0..3

---------------------------------------------------------------------------
(* traverse_graph *)

\* The enqueue test with the readiness condition dropped
should_enqueue_Always(next_node, visited, dependency_order) == TRUE

\* The enqueue test with the readiness condition applied in both modes
should_enqueue_Ordered(next_node, visited, dependency_order) ==
    next_node.out_edges \ visited = {}

\* The enqueue test that finds a node ready once one of its dependencies is visited
should_enqueue_AnyVisited(next_node, visited, dependency_order) ==
    ~dependency_order \/ next_node.out_edges \cap visited # {}

\* if not dependency_order or not unvisited_dependents
should_enqueue(next_node, visited, dependency_order) ==
    LET unvisited_dependents == next_node.out_edges \ visited
    IN  ~dependency_order \/ unvisited_dependents = {}

\* The ordered traversal started from every node of the graph
starting_leaves_All(graph) == DOMAIN graph

\* The nodes sync_all and sync_views start the ordered traversal from
starting_leaves(graph) == { n \in DOMAIN graph : graph[n].out_edges = {} }

\* The traversals of the handlers: reachability for sync, then creation
\* over the subgraph; drop-and-recreate over the whole graph for sync-all
TraversalPcs == {"sync_reach", "sync_create", "sync_all"}

\* dependency_order of the running traversal
dependency_order == pc # "sync_reach"

\* graph = graph or self.dependency_graph
traversed_graph ==
    IF pc = "sync_create" /\ DOMAIN subgraph # {} THEN subgraph ELSE dependency_graph

\* The node object a queue entry stands for: sync_views queues subgraph nodes
\* for its second traversal, nodes of the full graph otherwise
queued_node(name) ==
    IF pc = "sync_create" THEN subgraph[name] ELSE dependency_graph[name]

\* visit_function(active_node)
visit(node, rows, fail_at) ==
    IF pc = "sync_create" THEN create_node(node, fail_at, 0)
    ELSE IF pc = "sync_all" THEN drop_and_recreate_node(node, rows, fail_at)
    ELSE Outcome(<<>>, "none")

\* What removing the front of the queue yields: the items left, and whether
\* they are held by a new list object
Dequeued(items, fresh) == [items |-> items, fresh |-> fresh]

\* The queue that keeps its front node
dequeue_Nothing(queue) == Dequeued(queue, TRUE)

\* The front node removed from the list object itself (active_nodes.pop(0))
dequeue_InPlace(queue) == Dequeued(Tail(queue), FALSE)

\* active_nodes = active_nodes[1:]: a slice is a new list
dequeue(queue) == Dequeued(Tail(queue), TRUE)

\* The visited test that never finds a node visited
already_visited_Never(node, visited) == FALSE

\* if active_node.name in visited_nodes: continue
already_visited(node, visited) == node.name \in visited

\* One iteration of traverse_graph's while loop
traverse_step ==
    /\ pc \in TraversalPcs
    /\ active_nodes # <<>>
    /\ LET active_node == queued_node(Head(active_nodes))
           dequeued == dequeue(active_nodes)
           popped == dequeued.items
       IN  /\ aliased' = (aliased /\ ~dequeued.fresh)
           /\ IF already_visited(active_node, visited_nodes)
              THEN /\ active_nodes' = popped
                   /\ UNCHANGED <<pc, error, visited_nodes, visit_order, enqueued, sql>>
              ELSE \E rows \in CatalogRows(active_node.name), fail_at \in FailAt,
                      order \in Perms(active_node.in_edges) :
                   LET visited == visited_nodes \cup {active_node.name}
                       done == visit(active_node, rows, fail_at)
                       Enqueued(node_name) ==
                           should_enqueue(traversed_graph[node_name], visited, dependency_order)
                   IN  /\ visited_nodes' = visited
                       /\ visit_order' = Append(visit_order, active_node.name)
                       /\ sql' = sql \o done.stmts
                       /\ IF done.raised # "none"
                          THEN /\ Raise(done.raised)
                               /\ active_nodes' = popped
                               /\ enqueued' = enqueued
                          ELSE IF \E node_name \in active_node.in_edges :
                                     node_name \notin DOMAIN traversed_graph
                          THEN /\ Raise("KeyError")
                               /\ active_nodes' = popped
                               /\ enqueued' = enqueued
                          ELSE /\ active_nodes' = popped \o SelectSeq(order, Enqueued)
                               /\ enqueued' = enqueued \o SelectSeq(order, Enqueued)
                               /\ UNCHANGED <<pc, error>>
    \* a list object that is still the caller's changes for the caller too
    /\ starting_nodes' = IF aliased' THEN active_nodes' ELSE starting_nodes
    /\ UNCHANGED <<conn, commits, closes, dependency_graph, options, selected, todo, subgraph>>

---------------------------------------------------------------------------
(* The handlers *)

\* statement_names.extend(self.get_statements_from_file(file_name)) for every
\* file: the lists that can result, one per order in which the keys come
RECURSIVE extend_from_files(_, _)
extend_from_files(statement_names, file_names) ==
    IF file_names = <<>> THEN {statement_names}
    ELSE UNION { extend_from_files(statement_names \o keys, Tail(file_names)) :
                   keys \in Perms(get_statements_from_file(Head(file_names))) }

\* get_statements_from_arguments' first test
selector_missing(statement_names, file_names) ==
    statement_names = <<>> /\ file_names = <<>>

\* get_statements_from_arguments' validation loop, stopping after the first name
unrecognized_FirstOnly(statement_names, graph) ==
    statement_names # <<>> /\ statement_names[1] \notin DOMAIN graph

\* get_statements_from_arguments' validation loop: some name is not in the graph
unrecognized(statement_names, graph) ==
    \E i \in DOMAIN statement_names : statement_names[i] \notin DOMAIN graph

\* Every name is a key of the graph: no lookup graph[name] raises KeyError
known(statement_names, graph) ==
    \A i \in DOMAIN statement_names : statement_names[i] \in DOMAIN graph

\* The files named with --file-names: one that declares nothing, and one for
\* each name that declares it.  Only the name is read from such a file, so
\* its statement is a view with an empty body.
ArgumentFiles ==
    { <<>> } \cup
    { << statement_data >> : statement_data \in
        { sd \in StatementData : sd.statement_type = "view" /\ sd.body = <<>> } }

\* The command lines of drop and sync
Selections(action) ==
    { selection \in
        { [action |-> action, view_names |-> view_names, file_names |-> file_names] :
            view_names \in SeqsUpTo(Names, MaxSelectors),
            file_names \in SeqsUpTo(ArgumentFiles, MaxSelectors) } :
        Len(selection.view_names) + Len(selection.file_names) <= MaxSelectors }

\* The command lines of the actions that take no selection
NoSelection(action) == [action |-> action, view_names |-> <<>>, file_names |-> <<>>]

\* get_statements_from_arguments, as called first by drop_views and sync_views.
\* view_names is extended in place, so the options keep the resolved list.
get_statements_from_arguments(opts, next_pc) ==
    /\ IF selector_missing(opts.view_names, opts.file_names)
       THEN /\ options' = opts
            /\ Raise("ValueError")
            /\ selected' = selected
       ELSE \E statement_names \in extend_from_files(opts.view_names, opts.file_names) :
            /\ options' = [opts EXCEPT !.view_names = statement_names]
            /\ IF unrecognized(statement_names, dependency_graph)
               THEN /\ Raise("ValueError")
                    /\ selected' = selected
               ELSE /\ selected' = statement_names
                    /\ IF next_pc = "sync_reach" /\ ~known(statement_names, dependency_graph)
                       THEN Raise("KeyError")
                       ELSE pc' = next_pc /\ error' = error

\* list_all: prints the report, issues no SQL
list_all ==
    /\ pc = "dispatch"
    /\ options' = NoSelection("list")
    /\ pc' = "commit"
    /\ UNCHANGED <<conn, commits, closes, error, dependency_graph, selected, todo,
                   subgraph, active_nodes, visited_nodes, visit_order,
                   enqueued, starting_nodes, aliased, sql>>

\* drop_views up to its loop
drop_views ==
    /\ pc = "dispatch"
    /\ \E opts \in Selections("drop") : get_statements_from_arguments(opts, "drop_loop")
    /\ todo' = selected'
    /\ UNCHANGED <<conn, commits, closes, dependency_graph, subgraph, active_nodes,
                   visited_nodes, visit_order,
                   enqueued, starting_nodes, aliased, sql>>

\* drop_all up to its loop: the nodes in the order the dict yields them
drop_all ==
    /\ pc = "dispatch"
    /\ options' = NoSelection("drop-all")
    /\ \E order \in Perms(DOMAIN dependency_graph) : todo' = order
    /\ pc' = "drop_loop"
    /\ UNCHANGED <<conn, commits, closes, error, dependency_graph, selected, subgraph,
                   active_nodes, visited_nodes, visit_order,
                   enqueued, starting_nodes, aliased, sql>>

\* sync_views up to its first traversal, which starts from
\* [self.dependency_graph[statement_name] for statement_name in statement_names]
sync_views ==
    /\ pc = "dispatch"
    /\ \E opts \in Selections("sync") : get_statements_from_arguments(opts, "sync_reach")
    /\ starting_nodes' = selected'
    /\ active_nodes' = starting_nodes'
    /\ aliased' = TRUE
    /\ enqueued' = starting_nodes'
    /\ UNCHANGED <<conn, commits, closes, dependency_graph, todo, subgraph,
                   visited_nodes, visit_order, sql>>

\* sync_all up to its traversal
sync_all ==
    /\ pc = "dispatch"
    /\ options' = NoSelection("sync-all")
    /\ starting_nodes' \in Perms(starting_leaves(dependency_graph))
    /\ active_nodes' = starting_nodes'
    /\ aliased' = TRUE
    /\ enqueued' = starting_nodes'
    /\ pc' = "sync_all"
    /\ UNCHANGED <<conn, commits, closes, error, dependency_graph, selected, todo,
                   subgraph, visited_nodes, visit_order, sql>>

\* One iteration of a loop over drop_node: drop_views, drop_all, or the
\* drops of sync_views
drop_next ==
    /\ pc \in {"drop_loop", "sync_drop"}
    /\ todo # <<>>
    /\ IF Head(todo) \notin DOMAIN dependency_graph
       THEN /\ Raise("KeyError")
            /\ UNCHANGED <<todo, sql>>
       ELSE LET node == dependency_graph[Head(todo)]
            IN  \E rows \in CatalogRows(node.name), fail_at \in FailAt :
                 LET done == drop_node(node, rows, fail_at, 0)
                 IN  /\ sql' = sql \o done.stmts
                     /\ todo' = Tail(todo)
                     /\ IF done.raised # "none"
                        THEN Raise(done.raised)
                        ELSE UNCHANGED <<pc, error>>
    /\ UNCHANGED <<conn, commits, closes, dependency_graph, options, selected, subgraph,
                   active_nodes, visited_nodes, visit_order, enqueued,
                   starting_nodes, aliased>>

\* sync_views' subgraph with the edges left as they are in the full graph
restrict_KeepEdges(graph, subgraph_node_names) ==
    [node_name \in subgraph_node_names |-> graph[node_name]]

\* sync_views' subgraph: fresh nodes for the reachable names, their edges
\* pruned to the reachable names
restrict(graph, subgraph_node_names) ==
    [node_name \in subgraph_node_names |->
        LET original_node == graph[node_name]
        IN  [name |-> original_node.name,
             statement_type |-> original_node.statement_type,
             body |-> original_node.body,
             in_edges |-> { edge \in original_node.in_edges : edge \in subgraph_node_names },
             out_edges |-> { edge \in original_node.out_edges : edge \in subgraph_node_names }]]

\* sync_views dropping every node of the subgraph instead
nodes_to_drop_Collateral(selected_nodes, subgraph_node_names) ==
    CHOOSE order \in Perms(subgraph_node_names) : TRUE

\* sync_views dropping every node of the graph instead
nodes_to_drop_WholeGraph(selected_nodes, subgraph_node_names) ==
    CHOOSE order \in Perms(DOMAIN dependency_graph) : TRUE

\* for node in starting_nodes: self.drop_node(node)
nodes_to_drop(selected_nodes, subgraph_node_names) == selected_nodes

\* sync_views once the reachability traversal has returned: the subgraph
sync_build_subgraph ==
    /\ pc = "sync_reach"
    /\ active_nodes = <<>>
    /\ subgraph' = restrict(dependency_graph, visited_nodes)
    /\ todo' = nodes_to_drop(starting_nodes, visited_nodes)
    /\ pc' = "sync_drop"
    /\ UNCHANGED <<conn, commits, closes, error, dependency_graph, options, selected,
                   active_nodes, visited_nodes, visit_order,
                   enqueued, starting_nodes, aliased, sql>>

\* sync_views once its drops are done: the ordered traversal starts from the
\* subgraph's leaves
sync_recreate ==
    /\ pc = "sync_drop"
    /\ todo = <<>>
    /\ starting_nodes' \in Perms(starting_leaves(subgraph))
    /\ active_nodes' = starting_nodes'
    /\ aliased' = TRUE
    /\ enqueued' = starting_nodes'
    /\ visited_nodes' = {}
    /\ visit_order' = <<>>
    /\ pc' = "sync_create"
    /\ UNCHANGED <<conn, commits, closes, error, dependency_graph, options, selected,
                   todo, subgraph, sql>>

\* The handler returns: its loop or its last traversal is over
handler_returns ==
    /\ \/ pc = "drop_loop" /\ todo = <<>>
       \/ pc \in {"sync_create", "sync_all"} /\ active_nodes = <<>>
    /\ pc' = "commit"
    /\ UNCHANGED <<conn, commits, closes, error, dependency_graph, options, selected,
                   todo, subgraph, active_nodes, visited_nodes, visit_order,
                   enqueued, starting_nodes, aliased, sql>>

\* self.conn.commit()
commit ==
    /\ pc = "commit"
    /\ commits' = commits + 1
    /\ pc' = "finally"
    /\ UNCHANGED <<conn, closes, error, dependency_graph, options, selected, todo,
                   subgraph, active_nodes, visited_nodes, visit_order,
                   enqueued, starting_nodes, aliased, sql>>

\* finally: if hasattr(self, 'conn'): self.conn.close()
finally ==
    /\ pc = "finally"
    /\ IF conn # "none"
       THEN conn' = "closed" /\ closes' = closes + 1
       ELSE UNCHANGED <<conn, closes>>
    /\ pc' = "done"
    /\ UNCHANGED <<commits, error, dependency_graph, options, selected, todo,
                   subgraph, active_nodes, visited_nodes, visit_order,
                   enqueued, starting_nodes, aliased, sql>>

Next ==
    \/ parse_args
    \/ parse_next_file
    \/ parse_dependency_graph
    \/ list_all
    \/ drop_views
    \/ drop_all
    \/ sync_views
    \/ sync_all
    \/ traverse_step
    \/ drop_next
    \/ sync_build_subgraph
    \/ sync_recreate
    \/ handler_returns
    \/ commit
    \/ finally

Spec == Init /\ [][Next]_vars

\* The command is one sequential process: whenever it has a next step, it
\* takes it
FairSpec == Spec /\ WF_vars(Next)

---------------------------------------------------------------------------
(* Vocabulary of the properties *)

\* The statements drop_node issues
DropOps == {"DROP VIEW", "PROBE", "DROP FUNCTION"}

\* The positions of the history that hold a statement of the given kinds
Issued(ops) == { i \in DOMAIN sql : sql[i].op \in ops }

\* S with everything S transitively depends on (the closure under out_edges)
RECURSIVE Dependencies(_, _)
Dependencies(graph, S) ==
    LET next == S \cup UNION { graph[n].out_edges : n \in S \cap DOMAIN graph }
    IN  IF next = S THEN S ELSE Dependencies(graph, next)

\* S with everything that transitively depends on S (the closure under in_edges)
RECURSIVE Dependents(_, _)
Dependents(graph, S) ==
    LET next == S \cup UNION { graph[n].in_edges : n \in S \cap DOMAIN graph }
    IN  IF next = S THEN S ELSE Dependents(graph, next)

\* No node depends, directly or not, on itself
Acyclic(graph) ==
    \A n \in DOMAIN graph : n \notin Dependencies(graph, graph[n].out_edges)

\* The handler has returned normally
Returned == pc \in {"commit", "finally", "done"} /\ error = "none"

\* visit_order is that of a dependency-ordered traversal: sync-all runs no
\* other; sync runs one once its drops are done, and only it issues CREATE
OrderedTraversal ==
    \/ options.action = "sync-all"
    \/ /\ options.action = "sync"
       /\ pc = "sync_create" \/ Returned \/ Issued({"CREATE"}) # {}

\* The graph that traversal walks
OrderedGraph ==
    IF options.action = "sync" /\ DOMAIN subgraph # {} THEN subgraph ELSE dependency_graph

\* The names of the statements at the given positions, in order of issue
RECURSIVE NamesAt(_, _)
NamesAt(i, positions) ==
    IF i > Len(sql) THEN <<>>
    ELSE (IF i \in positions THEN << sql[i].name >> ELSE <<>>) \o NamesAt(i + 1, positions)

\* The names the CREATE statements were issued for, in order of issue
Created == NamesAt(1, Issued({"CREATE"}))

\* A sequence holds every element of S exactly once
EnumeratesOnce(seq, S) == Range(seq) = S /\ Len(seq) = Cardinality(S)

\* The scenario graph of views: A = a, B = c referencing a, C = ab referencing c
IsChain(graph) ==
    /\ DOMAIN graph = Names
    /\ \A n \in Names : graph[n].statement_type = "view"
    /\ graph[NameA].out_edges = {}
    /\ graph[NameC].out_edges = {NameA}
    /\ graph[NameAB].out_edges = {NameC}

---------------------------------------------------------------------------
(* C1 *)

\* C1: topological soundness.  In a dependency-ordered traversal of an acyclic
\* graph, started from all nodes with empty out_edges, every node is visited
\* strictly after every node in its out_edges.
C1_TopologicalSoundness ==
    (OrderedTraversal /\ Acyclic(OrderedGraph)) =>
        \A i \in DOMAIN visit_order :
            \A dependency \in OrderedGraph[visit_order[i]].out_edges :
                \E j \in 1..(i - 1) : visit_order[j] = dependency

\* An ordered traversal of an acyclic graph has visited three nodes, the last
\* of which waited for two dependencies
C1_Witness ==
    /\ OrderedTraversal
    /\ Acyclic(OrderedGraph)
    /\ Len(visit_order) = 3
    /\ Cardinality(OrderedGraph[visit_order[3]].out_edges) = 2
    /\ OrderedGraph[visit_order[2]].out_edges # {}

---------------------------------------------------------------------------
(* C2 *)

\* C2: when sync_all returns on an acyclic graph it has visited every node of
\* the graph exactly once; the statements of each node's drop_node come right
\* before that node's CREATE with no statement of another node in between, and
\* the CREATE of a node comes after the CREATEs of all nodes in its out_edges.
C2_SyncAllOrder ==
    (options.action = "sync-all" /\ Returned /\ Acyclic(dependency_graph)) =>
        /\ EnumeratesOnce(visit_order, DOMAIN dependency_graph)
        /\ Created = visit_order
        /\ \A i \in DOMAIN sql :
            IF sql[i].op = "CREATE"
            THEN /\ i > 1
                 /\ sql[i - 1].op \in DropOps
                 /\ sql[i - 1].name = sql[i].name
                 /\ \A dependency \in dependency_graph[sql[i].name].out_edges :
                        \E j \in 1..(i - 1) :
                            sql[j].op = "CREATE" /\ sql[j].name = dependency
            ELSE /\ i < Len(sql)
                 /\ sql[i + 1].name = sql[i].name
                 /\ dependency_graph[sql[i].name].statement_type = "view" =>
                        sql[i].op = "DROP VIEW" /\ sql[i + 1].op = "CREATE"

\* sync_all has returned on the scenario graph, having visited A, B, C in order
C2_Witness ==
    /\ options.action = "sync-all"
    /\ Returned
    /\ IsChain(dependency_graph)
    /\ visit_order = <<NameA, NameC, NameAB>>
    /\ Len(sql) = 6

---------------------------------------------------------------------------
(* C3 *)

\* The names cascading drops of the selected nodes destroy
Collateral == Dependents(dependency_graph, Range(selected))

\* C3: when sync_views returns, CREATE has been issued exactly once for every
\* node of the collateral set, each after the CREATEs of its dependencies
\* inside the collateral set: for every built graph and valid selection.
C3_SyncRecreatesCollateral ==
    (options.action = "sync" /\ Returned /\ selected # <<>>) =>
        /\ EnumeratesOnce(Created, Collateral)
        /\ \A i \in Issued({"CREATE"}) :
            \A dependency \in dependency_graph[sql[i].name].out_edges \cap Collateral :
                \E j \in 1..(i - 1) : sql[j].op = "CREATE" /\ sql[j].name = dependency

---------------------------------------------------------------------------
(* C4 *)

\* C4: reachability mode is exact.  Whatever the graph (cyclic or not) and the
\* seed list, the traversal with dependency_order=False never visits a name
\* outside the seeds and their transitive dependents, and returns all of them.
C4_ReachabilityExact ==
    pc = "sync_reach" =>
        /\ visited_nodes \subseteq Dependents(dependency_graph, Range(selected))
        /\ active_nodes = <<>> =>
               visited_nodes = Dependents(dependency_graph, Range(selected))

\* The reachability traversal has returned three names from one seed, over a
\* graph with a cycle
C4_Witness ==
    /\ pc = "sync_reach"
    /\ active_nodes = <<>>
    /\ Len(selected) = 1
    /\ Cardinality(visited_nodes) = 3
    /\ ~Acyclic(dependency_graph)

---------------------------------------------------------------------------
(* C5 *)

\* C5: in sync_views every statement of drop_node names an originally selected
\* node, and every one of them is issued before the first CREATE.
C5_SyncDropsOnlySelected ==
    options.action = "sync" =>
        \A i \in Issued(DropOps) :
            /\ sql[i].name \in Range(selected)
            /\ \A j \in Issued({"CREATE"}) : i < j

\* sync(["A"]) on the scenario graph has dropped only A and then created
\* A, B, C in that order
C5_Witness ==
    /\ options.action = "sync"
    /\ Returned
    /\ IsChain(dependency_graph)
    /\ selected = << NameA >>
    /\ Len(sql) = 4
    /\ sql[1].op = "DROP VIEW" /\ sql[1].name = NameA
    /\ Created = <<NameA, NameC, NameAB>>

---------------------------------------------------------------------------
(* C6 *)

\* How often x occurs in a sequence
Count(seq, x) == Cardinality({ i \in DOMAIN seq : seq[i] = x })

\* The DROP VIEW statements issued for a name
ViewDrops(name) == { i \in Issued({"DROP VIEW"}) : sql[i].name = name }

\* C6 as stated: when drop_views returns, exactly one DROP VIEW has been issued
\* for each selected view, no drop for a node that was not selected, and no
\* CREATE.
C6_DropExactlyOnce ==
    (options.action = "drop" /\ Returned) =>
        /\ \A name \in Range(selected) :
               dependency_graph[name].statement_type = "view" =>
                   Cardinality(ViewDrops(name)) = 1
        /\ \A i \in Issued(DropOps) : sql[i].name \in Range(selected)
        /\ Issued({"CREATE"}) = {}

\* C6 amended: drop_views issues no CREATE and no drop for a node that was not
\* selected, and when it returns it has issued one DROP VIEW for each
\* occurrence of a view in the resolved list of names (the --view-names
\* followed by the names each file declares): at least one for each selected
\* view, and two for a view that is named twice.
C6_DropOncePerOccurrence ==
    options.action = "drop" =>
        /\ Issued({"CREATE"}) = {}
        /\ \A i \in Issued(DropOps) : sql[i].name \in Range(selected)
        /\ Returned =>
               \A name \in Range(selected) :
                   dependency_graph[name].statement_type = "view" =>
                       /\ Cardinality(ViewDrops(name)) = Count(selected, name)
                       /\ Cardinality(ViewDrops(name)) >= 1

\* drop_views has returned after dropping two different views, one selected by
\* name and one through a file
C6_Witness ==
    /\ options.action = "drop"
    /\ Returned
    /\ Len(selected) = 2
    /\ selected[1] # selected[2]
    /\ options.file_names # <<>>
    /\ \A name \in Range(selected) : dependency_graph[name].statement_type = "view"
    /\ Len(sql) = 2

---------------------------------------------------------------------------
(* C7 *)

\* C7: for drop and sync, if neither names nor files were supplied, or if any
\* resolved name is not in the graph, the operation has failed with an error
\* and no SQL statement has been issued (nor anything committed).
C7_ValidationPrecedesSql ==
    ( /\ options.action \in {"drop", "sync"}
      /\ \/ options.view_names = <<>> /\ options.file_names = <<>>
         \/ \E i \in DOMAIN options.view_names :
                options.view_names[i] \notin DOMAIN dependency_graph ) =>
        /\ error = "ValueError"
        /\ pc \in {"finally", "done"}
        /\ sql = <<>>
        /\ commits = 0

\* The operation has failed on two resolved names of which the first is in the
\* graph and the second is not
C7_Witness ==
    /\ options.action \in {"drop", "sync"}
    /\ Len(options.view_names) = 2
    /\ options.view_names[1] \in DOMAIN dependency_graph
    /\ options.view_names[2] \notin DOMAIN dependency_graph
    /\ error = "ValueError"
    /\ sql = <<>>

---------------------------------------------------------------------------
(* C8 *)

\* C8 as stated: drop_node on a function issues the catalog probe first, then
\* exactly one DROP FUNCTION if the probe returned a row for the function,
\* and none if the probe returned nothing.
C8_FunctionDropFollowsProbe ==
    \A i \in DOMAIN sql :
        /\ sql[i].op = "DROP FUNCTION" =>
               /\ i > 1
               /\ sql[i - 1].op = "PROBE"
               /\ sql[i - 1].name = sql[i].name
               /\ sql[i - 1].rows >= 1
        /\ (sql[i].op = "PROBE" /\ sql[i].ok /\ sql[i].rows >= 1) =>
               /\ i < Len(sql)
               /\ sql[i + 1].op = "DROP FUNCTION"
               /\ sql[i + 1].name = sql[i].name
               /\ (i + 1 < Len(sql)) => sql[i + 2].op # "DROP FUNCTION"

---------------------------------------------------------------------------
(* C9 *)

\* parse_dependency_graph has returned
Built == pc = "dispatch" \/ options.action # "none"

\* C9: edge symmetry.  In every built graph B is in A.out_edges exactly when A
\* is in B.in_edges, and every name in an edge set is a node of the graph.
C9_EdgeSymmetry ==
    Built =>
        /\ \A A \in DOMAIN dependency_graph, B \in DOMAIN dependency_graph :
               B \in dependency_graph[A].out_edges <=> A \in dependency_graph[B].in_edges
        /\ \A A \in DOMAIN dependency_graph :
               dependency_graph[A].out_edges \cup dependency_graph[A].in_edges
                   \subseteq DOMAIN dependency_graph

\* A built graph of three nodes in which one node has two dependents and
\* another has two dependencies
C9_Witness ==
    /\ pc = "dispatch"
    /\ DOMAIN dependency_graph = Names
    /\ \E A \in Names : Cardinality(dependency_graph[A].in_edges) = 2
    /\ \E B \in Names : Cardinality(dependency_graph[B].out_edges) = 2

---------------------------------------------------------------------------
(* C10 *)

\* C10: no self-edges.  In every built graph no node is in its own out_edges
\* or in_edges, and the out_edges of a node are exactly the other known names
\* that occur in its body.
C10_NoSelfEdges ==
    Built =>
        \A A \in DOMAIN dependency_graph :
            /\ A \notin dependency_graph[A].out_edges
            /\ A \notin dependency_graph[A].in_edges
            /\ dependency_graph[A].out_edges =
                   { M \in DOMAIN dependency_graph \ {A} :
                       IsSubstring(M, dependency_graph[A].body) }

\* A built graph with a node whose body holds its own name and that of
\* another node
C10_Witness ==
    /\ pc = "dispatch"
    /\ \E A \in DOMAIN dependency_graph :
        /\ IsSubstring(A, dependency_graph[A].body)
        /\ dependency_graph[A].out_edges # {}

---------------------------------------------------------------------------
(* C11 *)

\* sync_views has derived its subgraph (a valid selection is never empty, so
\* neither is the subgraph)
SubgraphBuilt == options.action = "sync" /\ DOMAIN subgraph # {}

\* C11: subgraph consistency.  The subgraph sync_views derives has exactly the
\* names reachable from the selection as nodes, every name in an in_edges or
\* out_edges set of a subgraph node is a subgraph node, and B is in
\* A.out_edges exactly when A is in B.in_edges inside the subgraph.
C11_SubgraphConsistency ==
    SubgraphBuilt =>
        /\ DOMAIN subgraph = Dependents(dependency_graph, Range(selected))
        /\ \A A \in DOMAIN subgraph :
               subgraph[A].in_edges \cup subgraph[A].out_edges \subseteq DOMAIN subgraph
        /\ \A A \in DOMAIN subgraph, B \in DOMAIN subgraph :
               B \in subgraph[A].out_edges <=> A \in subgraph[B].in_edges

\* A subgraph of two nodes has been derived from a graph of three, and an
\* out_edge to the node left out has been pruned from one of them while the
\* edge between the two was kept
C11_Witness ==
    /\ pc = "sync_drop"
    /\ Cardinality(DOMAIN dependency_graph) = 3
    /\ Cardinality(DOMAIN subgraph) = 2
    /\ \E A \in DOMAIN subgraph :
        /\ subgraph[A].out_edges # {}
        /\ subgraph[A].out_edges # dependency_graph[A].out_edges

---------------------------------------------------------------------------
(* C12 *)

\* C12: termination.  Every traversal, in either mode and over every built
\* graph, leaves its loop.  On a graph with a cycle the reachability traversal
\* has visited every node reachable from the seeds when its queue is empty;
\* the dependency-ordered traversal raises nothing of its own (the only error
\* is the executor's) and returns although some nodes remain unvisited.
C12_Termination ==
    /\ (pc \in TraversalPcs) ~> (pc \notin TraversalPcs)
    /\ []( (pc = "sync_reach" /\ ~Acyclic(dependency_graph) /\ active_nodes = <<>>) =>
               visited_nodes = Dependents(dependency_graph, Range(selected)) )
    /\ []( (OrderedTraversal /\ ~Acyclic(OrderedGraph)) =>
               /\ error \in {"none", "ExecutionError"}
               /\ error = "ExecutionError" => ~sql[Len(sql)].ok
               /\ visited_nodes # DOMAIN OrderedGraph )

\* sync_all has returned without error from a graph of three nodes with a
\* cycle, having visited one node and left the two on the cycle unvisited
C12_Witness ==
    /\ options.action = "sync-all"
    /\ pc = "commit"
    /\ error = "none"
    /\ ~Acyclic(dependency_graph)
    /\ Cardinality(DOMAIN dependency_graph) = 3
    /\ Cardinality(visited_nodes) = 1

---------------------------------------------------------------------------
(* C13 *)

\* The positions of the history at which cursor.execute raised
Failed == { i \in DOMAIN sql : ~sql[i].ok }

\* C13: fail-fast.  In drop, drop-all, sync and sync-all, when the executor
\* fails on a statement the error leaves the handler, and the failing statement
\* is the last one issued: nothing follows it, neither a retry of it nor a
\* statement that undoes the drops and creates before it.
C13_FailFast ==
    \A i \in Failed :
        /\ i = Len(sql)
        /\ error = "ExecutionError"
        /\ pc \in {"finally", "done"}

\* The executor has failed on the third statement of sync or sync-all, after
\* a drop and a create that succeeded, while nodes were still queued
C13_Witness ==
    /\ options.action \in {"sync", "sync-all"}
    /\ Failed = {3}
    /\ sql[1].op = "DROP VIEW" /\ sql[2].op = "CREATE"
    /\ active_nodes # <<>>
    /\ pc = "done"

---------------------------------------------------------------------------
(* The warehouse, as the statement history determines it *)

\* What a statement the warehouse executed leaves of the objects W: DROP ...
\* CASCADE removes the object and everything that transitively depends on it,
\* CREATE adds the object, the catalog probe changes nothing; a statement the
\* executor failed on has no effect
Effect(W, statement) ==
    IF ~statement.ok THEN W
    ELSE IF statement.op \in {"DROP VIEW", "DROP FUNCTION"}
    THEN W \ Dependents(dependency_graph, {statement.name})
    ELSE IF statement.op = "CREATE" THEN W \cup {statement.name}
    ELSE W

\* The objects of the graph that exist after the first n statements, when W0
\* existed before the run
RECURSIVE WarehouseAfter(_, _)
WarehouseAfter(W0, n) ==
    IF n = 0 THEN W0 ELSE Effect(WarehouseAfter(W0, n - 1), sql[n])

\* The same for every n at once: the k-th entry is what exists before the
\* k-th statement, the last what exists after all of them
RECURSIVE WarehouseTrace(_, _)
WarehouseTrace(W0, n) ==
    IF n = 0 THEN << W0 >>
    ELSE LET trace == WarehouseTrace(W0, n - 1)
         IN  Append(trace, Effect(trace[n], sql[n]))

\* The probes agree with a trace: every catalog probe found a row exactly
\* when the function existed at that moment
ProbesAgree(trace) ==
    \A i \in Issued({"PROBE"}) :
        sql[i].ok => (sql[i].rows >= 1 <=> sql[i].name \in trace[i])

\* The warehouses the run may have started from
Warehouses ==
    { W0 \in SUBSET DOMAIN dependency_graph :
        ProbesAgree(WarehouseTrace(W0, Len(sql))) }

---------------------------------------------------------------------------
(* C14 *)

\* The first statements of the calls of drop_node: every call issues DROP VIEW
\* or the probe first
DropCalls(name) == { i \in Issued({"DROP VIEW", "PROBE"}) : sql[i].name = name }

\* C14 as stated: when drop_all returns it has called drop_node exactly once
\* on every node of the graph and issued no CREATE, and whatever existed
\* before and whatever the iteration order, no object named in the graph
\* exists in the warehouse afterwards.
C14_DropAllDropsEverything ==
    (options.action = "drop-all" /\ Returned) =>
        /\ \A name \in DOMAIN dependency_graph : Cardinality(DropCalls(name)) = 1
        /\ Issued({"CREATE"}) = {}
        /\ \A W0 \in Warehouses :
               WarehouseAfter(W0, Len(sql)) \cap DOMAIN dependency_graph = {}

---------------------------------------------------------------------------
(* C15 *)

\* C15 as stated: on an acyclic graph, in either mode, each node is placed on
\* the queue of one traversal at most once, its placement as a start node
\* included.
C15_EnqueuedAtMostOnce ==
    Acyclic(dependency_graph) =>
        \A name \in DOMAIN dependency_graph : Count(enqueued, name) <= 1

\* C15 amended: in a dependency-ordered traversal started from the nodes with
\* empty out_edges each node is placed on the queue at most once.  In the
\* reachability traversal a node is placed once for each of its occurrences in
\* the start list and once more for each visited node in its out_edges.
C15_EnqueuedOnceWhenOrdered ==
    Acyclic(dependency_graph) =>
        /\ OrderedTraversal =>
               \A name \in DOMAIN dependency_graph : Count(enqueued, name) <= 1
        /\ pc = "sync_reach" =>
               \A name \in DOMAIN dependency_graph :
                   Count(enqueued, name) =
                       Count(selected, name) +
                       Cardinality(dependency_graph[name].out_edges \cap visited_nodes)

\* An ordered traversal of an acyclic graph has finished after it queued each
\* of three nodes once, the last of them a node with two dependencies
C15_Witness ==
    /\ Acyclic(dependency_graph)
    /\ OrderedTraversal
    /\ active_nodes = <<>>
    /\ Len(visit_order) = 3
    /\ Cardinality(OrderedGraph[visit_order[3]].out_edges) = 2
    /\ Len(enqueued) = 3

---------------------------------------------------------------------------
(* C16 *)

\* The CREATE statements issued for a name
Creates(name) == { i \in Issued({"CREATE"}) : sql[i].name = name }

\* The step pops a node that is already visited
PopsVisited ==
    /\ pc \in TraversalPcs
    /\ active_nodes # <<>>
    /\ Head(active_nodes) \in visited_nodes

\* C16: visit exactly once.  Whatever the graph, the mode and the start list,
\* the nodes visited so far are exactly the names of the visited set, each
\* visited once; a visit function that issues SQL has issued at most one CREATE
\* for a name, none for a name outside the set, and one for each name of the
\* set once the traversal ends without error.  A popped node that is already
\* visited is only removed from the queue: nothing is visited, issued or queued.
C16_VisitExactlyOnce ==
    /\ [](EnumeratesOnce(visit_order, visited_nodes))
    /\ [](OrderedTraversal =>
            \A name \in DOMAIN dependency_graph :
                /\ Cardinality(Creates(name)) <= 1
                /\ name \notin visited_nodes => Creates(name) = {}
                /\ (name \in visited_nodes /\ error = "none" /\ active_nodes = <<>>) =>
                       Cardinality(Creates(name)) = 1)
    /\ [][PopsVisited =>
            /\ active_nodes' = Tail(active_nodes)
            /\ UNCHANGED <<pc, error, visited_nodes, visit_order, enqueued, sql>>]_vars

\* A reachability traversal has ended after it queued some node twice and
\* visited three nodes, so that a visited node was popped again and discarded
C16_Witness ==
    /\ pc = "sync_reach"
    /\ active_nodes = <<>>
    /\ Len(visit_order) = 3
    /\ Len(enqueued) > 3

---------------------------------------------------------------------------
(* C17 *)

\* The nodes that lie on a cycle
OnCycle(graph) ==
    { n \in DOMAIN graph : n \in Dependencies(graph, graph[n].out_edges) }

\* The ordered traversal walks the graph its start nodes were taken from:
\* sync-all's always does; sync's walks the whole graph instead of an empty
\* subgraph (graph = graph or self.dependency_graph), with no start node
StartedFromLeaves == options.action = "sync" => DOMAIN subgraph # {}

\* The ordered traversal has left its loop without an error
OrderedTraversalOver == OrderedTraversal /\ active_nodes = <<>> /\ error = "none"

\* C17: on a graph with cycles the dependency-ordered traversal started from
\* the nodes with empty out_edges visits a node only after all nodes in its
\* out_edges; when it ends, the nodes it has not visited are exactly those that
\* lie on a cycle or transitively depend on a node that does; and if no node
\* has empty out_edges it visits nothing and issues no SQL.
C17_CyclesStripped ==
    (OrderedTraversal /\ StartedFromLeaves /\ ~Acyclic(OrderedGraph)) =>
        /\ \A i \in DOMAIN visit_order :
            \A dependency \in OrderedGraph[visit_order[i]].out_edges :
                \E j \in 1..(i - 1) : visit_order[j] = dependency
        /\ OrderedTraversalOver =>
               DOMAIN OrderedGraph \ visited_nodes =
                   Dependents(OrderedGraph, OnCycle(OrderedGraph))
        /\ starting_leaves(OrderedGraph) = {} =>
               /\ visit_order = <<>>
               /\ Issued({"CREATE"}) = {}
               /\ options.action = "sync-all" => sql = <<>>

\* sync_all has ended on a graph of three nodes after visiting its one leaf:
\* the two nodes of the cycle stay unvisited, one of them although the leaf it
\* depends on was recreated
C17_Witness ==
    /\ options.action = "sync-all"
    /\ OrderedTraversalOver
    /\ Cardinality(DOMAIN dependency_graph) = 3
    /\ Cardinality(OnCycle(dependency_graph)) = 2
    /\ Len(visit_order) = 1
    /\ \E name \in OnCycle(dependency_graph) :
           visit_order[1] \in dependency_graph[name].out_edges
    /\ Len(sql) = 2

---------------------------------------------------------------------------
(* C18 *)

\* C18: traversal and subgraph derivation are read-only on their inputs.  No
\* iteration of traverse_graph changes the caller's start list or a node of
\* the graph or of the subgraph; sync_views still holds its list of selected
\* nodes when the reachability traversal has returned; and once built, the
\* dependency graph (its nodes and their edge sets) never changes, so it is
\* the same after sync_views has derived its subgraph as before.
C18_ReadOnlyInputs ==
    /\ [][(pc \in TraversalPcs /\ active_nodes # <<>>) =>
            UNCHANGED <<starting_nodes, dependency_graph, subgraph>>]_vars
    /\ [](pc \in {"sync_reach", "sync_drop"} => starting_nodes = selected)
    /\ [][Built => dependency_graph' = dependency_graph]_vars

\* sync_views is in its second traversal, which has visited two nodes from a
\* start list of one and queued the second; the subgraph holds a node with an
\* edge pruned, the full graph the same node unpruned
C18_Witness ==
    /\ pc = "sync_create"
    /\ Len(starting_nodes) = 1
    /\ Len(visit_order) = 2
    /\ Len(enqueued) = 2
    /\ \E name \in DOMAIN subgraph :
           subgraph[name].out_edges # dependency_graph[name].out_edges

---------------------------------------------------------------------------
(* C19 *)

\* C19: sync_views never touches an object outside the collateral set (the
\* selected nodes and their transitive dependents).  Every statement it issues
\* names a node of the set; whatever existed before, after each statement the
\* objects outside the set are the ones that existed before the run (none
\* destroyed by a cascade, none created); so when a node is created, each of
\* its dependencies outside the set that existed before the run still exists.
C19_SyncFrame ==
    options.action = "sync" =>
        LET collateral == Collateral
        IN  /\ \A i \in DOMAIN sql : sql[i].name \in collateral
            /\ \A W0 \in SUBSET DOMAIN dependency_graph :
                LET trace == WarehouseTrace(W0, Len(sql))
                IN  ProbesAgree(trace) =>
                    /\ \A k \in DOMAIN trace : trace[k] \ collateral = W0 \ collateral
                    /\ \A i \in Issued({"CREATE"}) :
                           \A dependency \in dependency_graph[sql[i].name].out_edges \ collateral :
                               dependency \in W0 => dependency \in trace[i]

\* sync(["B"]) has returned on the scenario graph: B was dropped, B and C were
\* created, and A, which B depends on, lies outside the collateral set
C19_Witness ==
    /\ options.action = "sync"
    /\ Returned
    /\ IsChain(dependency_graph)
    /\ selected = << NameC >>
    /\ Collateral = {NameC, NameAB}
    /\ Len(sql) = 3
    /\ Created = <<NameC, NameAB>>
    /\ \E W0 \in Warehouses : NameA \in WarehouseAfter(W0, Len(sql))

---------------------------------------------------------------------------
(* C20 *)

\* The names the warehouse has created an object for by the first n statements
CreatedBy(n) ==
    { sql[j].name : j \in { i \in Issued({"CREATE"}) : i <= n /\ sql[i].ok } }

\* C20: in sync_all on an acyclic graph, with DROP .. CASCADE destroying the
\* object and everything transitively dependent on it, no drop destroys an
\* object created earlier in the same run; so whatever existed before, when
\* sync_all returns every object named in the graph exists.
C20_SyncAllRebuildsEverything ==
    (options.action = "sync-all" /\ Acyclic(dependency_graph)) =>
        /\ \A i \in Issued({"DROP VIEW", "DROP FUNCTION"}) :
               sql[i].ok =>
                   Dependents(dependency_graph, {sql[i].name}) \cap CreatedBy(i - 1) = {}
        /\ Returned =>
               \A W0 \in Warehouses :
                   WarehouseAfter(W0, Len(sql)) = DOMAIN dependency_graph

\* sync_all has returned on an acyclic graph of three views, one of which
\* depends on the two others, none of which existed before
C20_Witness ==
    /\ options.action = "sync-all"
    /\ Returned
    /\ Acyclic(dependency_graph)
    /\ Cardinality(DOMAIN dependency_graph) = 3
    /\ \E name \in DOMAIN dependency_graph :
           Cardinality(dependency_graph[name].out_edges) = 2
    /\ Len(sql) = 6
    /\ {} \in Warehouses
    /\ WarehouseAfter({}, Len(sql)) = Names

---------------------------------------------------------------------------
(* C21 *)

\* handle has run to its end: the finally clause is done
HandleOver == pc = "done"

\* C21: in one run of handle, commit is invoked at most once, only after
\* parse_args, parse_dependency_graph and the handler have completed without
\* error, and it has been invoked when such a run is over; no SQL statement is
\* issued after it.  The connection is closed at most once, only in the
\* finally clause and never before a commit; when the run is over it has been
\* closed exactly once if it was opened and not at all otherwise, after the
\* commit on success and with no commit on error.
C21_CommitAndClose ==
    /\ []( /\ commits <= 1
           /\ closes <= 1
           /\ commits = 1 => (error = "none" /\ options.action # "none"
                                             /\ pc \in {"finally", "done"})
           /\ closes = 1 => (HandleOver /\ conn = "closed")
           /\ HandleOver =>
                  /\ commits = 1 <=> error = "none"
                  /\ closes = 1 <=> conn # "none"
                  /\ conn \in {"none", "closed"} )
    /\ [][commits >= 1 => sql' = sql]_vars
    /\ [][closes >= 1 => commits' = commits]_vars

\* sync or sync-all has issued statements, committed, and closed the connection
C21_Witness ==
    /\ HandleOver
    /\ options.action \in {"sync", "sync-all"}
    /\ error = "none"
    /\ Len(sql) >= 2
    /\ commits = 1
    /\ closes = 1
    /\ conn = "closed"

====
